---- MODULE Spec2Model ----
(***************************************************************************)
(* Model of the probe script src/test.py: the credential load, the login   *)
(* request of the requests.Session, the nine persisted probes with         *)
(* try_save, and the byte-range probe.  The notebook server, the file      *)
(* .secret and the directory samples/ are the environment.                 *)
(*                                                                         *)
(* Texts that the code parses or produces (the content of .secret, the     *)
(* response bodies, the content of the output files) are sequences of      *)
(* one-character strings.  URLs and file names, which the code only        *)
(* builds, are strings.                                                    *)
(***************************************************************************)
EXTENDS Integers, Sequences, FiniteSets, TLC

(***************************************************************************)
(* Bounds of the model.                                                    *)
(***************************************************************************)
\* how many things of the environment may deviate from the nominal one (a
\* running server that answers 200 with JSON on every route, a clean token
\* file, an existing writable samples/ directory)
MaxFaults == 1
\* how many times the script is run against the same environment
MaxRuns == 2

(***************************************************************************)
(* Characters and str.strip()                                              *)
(***************************************************************************)
Whitespace == {" ", "\n", "\t", "\r"}
Digits == {"0", "1", "2", "3", "4", "5", "6", "7", "8", "9"}
DigitVal == [c \in Digits |->
               CASE c = "0" -> 0 [] c = "1" -> 1 [] c = "2" -> 2 [] c = "3" -> 3
                 [] c = "4" -> 4 [] c = "5" -> 5 [] c = "6" -> 6 [] c = "7" -> 7
                 [] c = "8" -> 8 [] c = "9" -> 9]
DigitChar == <<"0", "1", "2", "3", "4", "5", "6", "7", "8", "9">>

RECURSIVE lstrip(_)
lstrip(s) == IF s # <<>> /\ Head(s) \in Whitespace THEN lstrip(Tail(s)) ELSE s

RECURSIVE rstrip(_)
rstrip(s) ==
  IF s # <<>> /\ s[Len(s)] \in Whitespace
  THEN rstrip(SubSeq(s, 1, Len(s) - 1))
  ELSE s

\* f.read().strip()
strip(s) == rstrip(lstrip(s))

(***************************************************************************)
(* resp.json(): the JSON decoder, on the JSON subset of non-negative       *)
(* integers and arrays.  A value is [t |-> "num", v |-> n] or              *)
(* [t |-> "arr", v |-> <<values>>].  The result is [ok, val, pos]: pos is  *)
(* the index after the value, or the index of the error.                   *)
(***************************************************************************)
Num(n) == [t |-> "num", v |-> n]
Arr(xs) == [t |-> "arr", v |-> xs]
Decoded(val, pos) == [ok |-> TRUE, val |-> val, pos |-> pos, msg |-> ""]
JSONDecodeError(msg, pos) == [ok |-> FALSE, val |-> Num(0), pos |-> pos, msg |-> msg]

RECURSIVE SkipWs(_, _)
SkipWs(s, p) ==
  IF p <= Len(s) /\ s[p] \in Whitespace THEN SkipWs(s, p + 1) ELSE p

RECURSIVE ScanInt(_, _, _)
ScanInt(s, p, acc) ==
  IF p <= Len(s) /\ s[p] \in Digits
  THEN ScanInt(s, p + 1, acc * 10 + DigitVal[s[p]])
  ELSE Decoded(Num(acc), p)

RECURSIVE ParseValue(_, _)
RECURSIVE ParseElems(_, _, _)
ParseValue(s, p) ==
  LET q == SkipWs(s, p) IN
  IF q > Len(s) THEN JSONDecodeError("Expecting value", q)
  ELSE IF s[q] = "0" THEN Decoded(Num(0), q + 1)
  ELSE IF s[q] \in Digits THEN ScanInt(s, q, 0)
  ELSE IF s[q] = "["
       THEN LET r == SkipWs(s, q + 1) IN
            IF r <= Len(s) /\ s[r] = "]"
            THEN Decoded(Arr(<<>>), r + 1)
            ELSE ParseElems(s, r, <<>>)
  ELSE JSONDecodeError("Expecting value", q)

ParseElems(s, p, acc) ==
  LET v == ParseValue(s, p) IN
  IF ~v.ok THEN v
  ELSE LET q == SkipWs(s, v.pos) IN
       IF q > Len(s) THEN JSONDecodeError("Expecting ',' delimiter", q)
       ELSE IF s[q] = "]" THEN Decoded(Arr(Append(acc, v.val)), q + 1)
       ELSE IF s[q] = "," THEN ParseElems(s, q + 1, Append(acc, v.val))
       ELSE JSONDecodeError("Expecting ',' delimiter", q)

\* resp.json()
resp_json(body) ==
  LET v == ParseValue(body, 1) IN
  IF ~v.ok THEN v
  ELSE LET q == SkipWs(body, v.pos) IN
       IF q <= Len(body) THEN JSONDecodeError("Extra data", q) ELSE v

(***************************************************************************)
(* json.dump(data, f, indent=2)                                            *)
(***************************************************************************)
indent == 2

RECURSIVE IntText(_)
IntText(n) ==
  IF n < 10 THEN <<DigitChar[n + 1]>>
  ELSE IntText(n \div 10) \o <<DigitChar[(n % 10) + 1]>>

Spaces(k) == [j \in 1..k |-> " "]

RECURSIVE Dumps(_, _)
RECURSIVE DumpItems(_, _, _)
Dumps(d, lvl) ==
  IF d.t = "num" THEN IntText(d.v)
  ELSE IF Len(d.v) = 0 THEN <<"[", "]">>
  ELSE <<"[">> \o DumpItems(d.v, 1, lvl + 1)
         \o <<"\n">> \o Spaces(indent * lvl) \o <<"]">>

DumpItems(xs, k, lvl) ==
  <<"\n">> \o Spaces(indent * lvl) \o Dumps(xs[k], lvl)
    \o (IF k < Len(xs) THEN <<",">> \o DumpItems(xs, k + 1, lvl) ELSE <<>>)

json_dump(data) == Dumps(data, 0)

(***************************************************************************)
(* Constants of the script                                                 *)
(***************************************************************************)
lab_url == "http://localhost:8888/"
workspace_dir == "."
\* mutant of names: two names of the list change places
names_reordered == <<"kernels", "sessions", "contents", "terminals", "kernelspecs",
                     "status", "me">>
\* the list the for loop walks
names == <<"sessions", "kernels", "contents", "terminals", "kernelspecs",
           "status", "me">>
\* range(2)
byte_range == [start |-> 0, stop |-> 2]

\* the URLs the script requests, without their query strings
login_url == lab_url
root_url == lab_url \o "/api/"
workspaces_url == lab_url \o "/lab/api/workspaces"
api_url(name) == lab_url \o "/api/" \o name
range_url == lab_url \o "/files/hello.txt"

\* the Path each persisted probe hands to try_save
root_filename == "[GET]__root"
workspaces_filename == "[GET]lab__workspaces"
\* mutant of api_filename: the f prefix of the string is forgotten
api_filename_literal(name) == "[GET]{i}"
api_filename(name) == "[GET]" \o name

\* workspace_dir / f"samples/{filename}.json"
OutputPath(filename) == workspace_dir \o "/samples/" \o filename \o ".json"

(***************************************************************************)
(* The environment: the notebook server, .secret and samples/              *)
(***************************************************************************)
ProbeUrls == <<root_url, workspaces_url>> \o [k \in 1..Len(names) |-> api_url(names[k])]
ProbeFiles ==
  <<root_filename, workspaces_filename>> \o [k \in 1..Len(names) |-> api_filename(names[k])]
Routes == {login_url, range_url} \cup {ProbeUrls[k] : k \in 1..Len(ProbeUrls)}

Http(status, body, cookies) ==
  [kind |-> "http", status_code |-> status, body |-> body, cookies |-> cookies]
\* the request never gets a response: connection refused, timeout
NoResponse == [kind |-> "conn", status_code |-> 0, body |-> <<>>, cookies |-> {}]

\* the document the server serves on the k-th probe route, as compact JSON
JsonBody(k) == <<"[", DigitChar[k + 1], ",", "0", "]">>
TextBody == <<"n", "o", "t", " ", "j", "s", "o", "n">>
HtmlBody == <<"<", "h", "t", "m", "l", ">">>
LoginCookie == "username-localhost-8888"
\* a file left in samples/ by an earlier run against another server state
StaleText == <<"[", "\n", " ", " ", "7", "\n", "]">>

ProbeIndex(url) == CHOOSE k \in 1..Len(ProbeUrls) : ProbeUrls[k] = url

\* what may deviate, and how
Slots == {"secret", "dir"} \cup Routes
Deviations(slot) ==
  CASE slot = "secret" -> {"absent", "unreadable", "newline"}
    [] slot = "dir" -> {"missing", "readonly"}
    [] slot = login_url -> {"conn", "nocookie"}
    [] slot = range_url -> {"conn"}
    [] OTHER -> {"conn", "text200", "json203", "json404", "text404"}
AllDeviations == UNION {Deviations(s) : s \in Slots}

Response(url, dev) ==
  IF dev = "conn" THEN NoResponse
  ELSE IF url = login_url
       THEN Http(200, HtmlBody, IF dev = "nocookie" THEN {} ELSE {LoginCookie})
  ELSE IF url = range_url THEN Http(206, <<"h", "e">>, {})
  ELSE LET k == ProbeIndex(url) IN
       CASE dev = "text200" -> Http(200, TextBody, {})
         [] dev = "json203" -> Http(203, JsonBody(k), {})
         [] dev = "json404" -> Http(404, JsonBody(k), {})
         [] dev = "text404" -> Http(404, TextBody, {})
         [] OTHER -> Http(200, JsonBody(k), {})

SecretFile(dev) ==
  CASE dev = "absent" -> [state |-> "absent", text |-> <<>>]
    [] dev = "unreadable" -> [state |-> "unreadable", text |-> <<"t", "k">>]
    [] dev = "newline" -> [state |-> "ok", text |-> <<"t", "k", "\n">>]
    [] OTHER -> [state |-> "ok", text |-> <<"t", "k">>]

StaleFiles == [p \in {OutputPath(ProbeFiles[k]) : k \in 1..Len(ProbeFiles)} |-> StaleText]
NoFiles == [p \in {} |-> <<>>]

Environments ==
  {e \in UNION {[D -> AllDeviations] : D \in {S \in SUBSET Slots : Cardinality(S) <= MaxFaults}} :
     /\ \A s \in DOMAIN e : e[s] \in Deviations(s)}
Dev(e, slot) == IF slot \in DOMAIN e THEN e[slot] ELSE "nominal"

(***************************************************************************)
(* State                                                                   *)
(***************************************************************************)
VARIABLES
  secret_file,   \* the file .secret: [state, text]
  samples_dir,   \* the directory samples/: "ok", "missing" or "readonly"
  samples,       \* the files of samples/: path -> content
  server,        \* the response of the server on each route
  pc,            \* the statement of the script that runs next
  i,             \* the loop variable, as an index into names
  token,         \* the module-level token
  client,        \* the cookies the requests.Session holds
  resp,          \* the module-level resp
  stdout,        \* the lines printed by this run
  exc,           \* the exception that ended this run, "" if none
  run,           \* the number of this run of the script
  trace,         \* history: the requests, prints and file writes of all runs
  prev_samples   \* history: samples/ as the previous run left it

vars == <<secret_file, samples_dir, samples, server, pc, i, token, client, resp,
          stdout, exc, run, trace, prev_samples>>
env_vars == <<secret_file, samples_dir, server>>

NoResp == Http(0, <<>>, {})

Init ==
  /\ \E e \in Environments :
       /\ secret_file = SecretFile(Dev(e, "secret"))
       /\ samples_dir = (IF "dir" \in DOMAIN e THEN e["dir"] ELSE "ok")
       \* samples/ is empty, or holds the files of an earlier run; a
       \* directory that does not exist holds nothing
       /\ samples \in (IF Dev(e, "dir") = "missing" THEN {NoFiles}
                       ELSE {NoFiles, StaleFiles})
       /\ server = [u \in Routes |-> Response(u, Dev(e, u))]
  /\ pc = "open_secret"
  /\ i = 1
  /\ token = <<>>
  /\ client = {}
  /\ resp = NoResp
  /\ stdout = <<>>
  /\ exc = ""
  /\ run = 1
  /\ trace = <<>>
  /\ prev_samples = samples

(***************************************************************************)
(* with open(".secret", "r") as f: token = f.read().strip()                *)
(***************************************************************************)
\* mutant of open_r: the file is opened in a mode that creates it
open_r_lenient(file) == ""
open_r(file) ==
  CASE file.state = "absent" -> "FileNotFoundError"
    [] file.state = "unreadable" -> "PermissionError"
    [] OTHER -> ""

OpenSecret ==
  /\ pc = "open_secret"
  /\ IF open_r(secret_file) # ""
     THEN /\ exc' = open_r(secret_file)
          /\ pc' = "crashed"
          /\ UNCHANGED token
     ELSE /\ token' = strip(secret_file.text)
          /\ pc' = "login"
          /\ UNCHANGED exc
  /\ UNCHANGED <<env_vars, samples, i, client, resp, stdout, run, trace, prev_samples>>

(***************************************************************************)
(* The requests                                                            *)
(***************************************************************************)
Request(via, url, params, headers, cookies) ==
  [via |-> via, url |-> url, params |-> params, headers |-> headers, cookies |-> cookies]

\* client.get(f"{lab_url}?token={token}")
login_request(tok, jar) ==
  Request("session", login_url, << <<"token", tok>> >>, <<>>, jar)
\* mutant of client_get: the token goes out with every request
client_get_with_token(url, tok, jar) ==
  Request("session", url, << <<"token", tok>> >>, <<>>, jar)
\* client.get(url): the session sends the cookies it holds
client_get(url, tok, jar) == Request("session", url, <<>>, <<>>, jar)
\* requests.get(f"{lab_url}/files/hello.txt?token={token}", headers={"Range": ...})
range_request(tok) ==
  Request("requests", range_url, << <<"token", tok>> >>,
          << <<"Range", <<"bytes=">> \o IntText(byte_range.start) \o <<"-">>
                          \o IntText(byte_range.stop - 1)>> >>, {})

Event(kind, req, out) == [run |-> run, ev |-> kind, req |-> req, out |-> out]

\* mutant of on_no_response: the error is swallowed and the script goes on
on_no_response_caught(next) == [pc |-> next, exc |-> ""]
\* what a failed send does to the run: requests raises ConnectionError, which
\* nothing in the script catches
on_no_response(next) == [pc |-> "crashed", exc |-> "ConnectionError"]

\* One HTTP GET: the request goes out; the response becomes resp, and a
\* session keeps the cookies of the response.
Send(req, next) ==
  LET r == server[req.url] IN
  IF r.kind = "conn"
  THEN LET o == on_no_response(next) IN
       /\ trace' = Append(trace, Event("get", req, <<"ConnectionError">>))
       /\ pc' = o.pc
       /\ exc' = o.exc
       /\ UNCHANGED <<resp, client>>
  ELSE /\ trace' = Append(trace, Event("get", req, <<"response">>))
       /\ resp' = r
       /\ client' = (IF req.via = "session" THEN client \cup r.cookies ELSE client)
       /\ pc' = next
       /\ UNCHANGED exc

Login ==
  /\ pc = "login"
  /\ Send(login_request(token, {}), "get_root")
  /\ UNCHANGED <<env_vars, samples, i, token, stdout, run, prev_samples>>

(***************************************************************************)
(* try_save(resp, filename)                                                *)
(***************************************************************************)
\* mutant of open_w: mode "a", nothing is truncated
open_w_append(dir, files, path) ==
  IF dir = "missing" THEN [exc |-> "FileNotFoundError", files |-> files]
  ELSE IF dir = "readonly" /\ path \notin DOMAIN files
       THEN [exc |-> "PermissionError", files |-> files]
  ELSE [exc |-> "", files |-> files @@ (path :> <<>>)]
\* open(path, "w"): the file is created or truncated.  In a directory
\* without write permission a file that exists can still be opened.
open_w(dir, files, path) ==
  IF dir = "missing" THEN [exc |-> "FileNotFoundError", files |-> files]
  ELSE IF dir = "readonly" /\ path \notin DOMAIN files
       THEN [exc |-> "PermissionError", files |-> files]
  ELSE [exc |-> "", files |-> (path :> <<>>) @@ files]

\* f.write(text), at the end of what the file holds
write(files, path, text) == (path :> (files[path] \o text)) @@ files

\* print(f"Error: {resp.status_code}")
status_line(r) == <<"Error: ">> \o IntText(r.status_code)
\* print(f"JSON decode error: {e}")
decode_line(e) == <<"JSON decode error: ", e.msg, ": char ">> \o IntText(e.pos - 1)

\* mutant of status_ok: every 2xx status counts
status_ok_2xx(r) == r.status_code \in 200..299
\* Whether try_save takes the branch that parses and saves.
status_ok(r) == r.status_code = 200

\* An outcome of try_save: the exception that escapes ("" if none), the
\* lines printed, the files afterwards and the paths opened for writing.
Outcome(e, out, files, opened) ==
  [exc |-> e, out |-> out, files |-> files, opened |-> opened]

\* mutant of on_decode_error: the except clause is missing
on_decode_error_uncaught(e, files, opened) == Outcome("JSONDecodeError", <<>>, files, opened)
\* except json.JSONDecodeError as e: print(...)
on_decode_error(e, files, opened) == Outcome("", <<decode_line(e)>>, files, opened)

\* mutant of save_json: the file is opened before the body is parsed
save_json_open_first(r, path, dir, files) ==
  LET f == open_w(dir, files, path) IN
  IF f.exc # ""
  THEN Outcome(f.exc, <<>>, f.files, <<>>)
  ELSE LET data == resp_json(r.body) IN
       IF ~data.ok
       THEN on_decode_error(data, f.files, <<path>>)
       ELSE Outcome("", <<>>, write(f.files, path, json_dump(data.val)), <<path>>)
\* The try block: data = resp.json(), then open and json.dump.
save_json(r, path, dir, files) ==
  LET data == resp_json(r.body) IN
  IF ~data.ok
  THEN on_decode_error(data, files, <<>>)
  ELSE LET f == open_w(dir, files, path) IN
       IF f.exc # ""
       THEN \* an OSError is no JSONDecodeError: it leaves try_save
            Outcome(f.exc, <<>>, f.files, <<>>)
       ELSE Outcome("", <<>>, write(f.files, path, json_dump(data.val)), <<path>>)

\* try_save(r, filename) on the directory dir holding files
try_save(r, filename, dir, files) ==
  IF status_ok(r)
  THEN save_json(r, OutputPath(filename), dir, files)
  ELSE Outcome("", <<status_line(r)>>, files, <<>>)

\* The statement try_save(resp, Path(filename)) after the request req.
TrySave(req, filename, next) ==
  LET o == try_save(resp, filename, samples_dir, samples) IN
  /\ samples' = o.files
  /\ stdout' = stdout \o o.out
  /\ trace' = trace \o [k \in 1..Len(o.opened) |-> Event("write", req, <<o.opened[k]>>)]
                    \o [k \in 1..Len(o.out) |-> Event("print", req, o.out[k])]
  /\ IF o.exc # ""
     THEN pc' = "crashed" /\ exc' = o.exc
     ELSE pc' = next /\ UNCHANGED exc

(***************************************************************************)
(* The probe sequence                                                      *)
(***************************************************************************)
\* resp = client.get(f"{lab_url}/api/")
GetRoot ==
  /\ pc = "get_root"
  /\ Send(client_get(root_url, token, client), "save_root")
  /\ UNCHANGED <<env_vars, samples, i, token, stdout, run, prev_samples>>

\* try_save(resp, Path("[GET]__root"))
SaveRoot ==
  /\ pc = "save_root"
  /\ TrySave(client_get(root_url, token, client), root_filename, "get_workspaces")
  /\ UNCHANGED <<env_vars, i, token, client, resp, run, prev_samples>>

\* resp = client.get(f"{lab_url}/lab/api/workspaces")
GetWorkspaces ==
  /\ pc = "get_workspaces"
  /\ Send(client_get(workspaces_url, token, client), "save_workspaces")
  /\ UNCHANGED <<env_vars, samples, i, token, stdout, run, prev_samples>>

\* where the script goes when the for loop has walked the first k names
after_loop(k) == IF k < Len(names) THEN "loop_get" ELSE "range"

\* try_save(resp, Path("[GET]lab__workspaces")); then for i in [...]
SaveWorkspaces ==
  /\ pc = "save_workspaces"
  /\ TrySave(client_get(workspaces_url, token, client), workspaces_filename, after_loop(0))
  /\ i' = 1
  /\ UNCHANGED <<env_vars, token, client, resp, run, prev_samples>>

\* resp = client.get(f"{lab_url}/api/{i}")
LoopGet ==
  /\ pc = "loop_get"
  /\ Send(client_get(api_url(names[i]), token, client), "loop_save")
  /\ UNCHANGED <<env_vars, samples, i, token, stdout, run, prev_samples>>

\* try_save(resp, Path(f"[GET]{i}")); then the next name of the loop
LoopSave ==
  /\ pc = "loop_save"
  /\ TrySave(client_get(api_url(names[i]), token, client), api_filename(names[i]),
             after_loop(i))
  /\ i' = (IF i < Len(names) THEN i + 1 ELSE i)
  /\ UNCHANGED <<env_vars, token, client, resp, run, prev_samples>>

\* resp = requests.get(..., headers={"Range": ...}); resp.text
RangeGet ==
  /\ pc = "range"
  /\ Send(range_request(token), "done")
  /\ UNCHANGED <<env_vars, samples, i, token, stdout, run, prev_samples>>

Ended == pc \in {"done", "crashed"}

\* The script is started again, a new process against the same environment.
Rerun ==
  /\ Ended
  /\ run < MaxRuns
  /\ run' = run + 1
  /\ prev_samples' = samples
  /\ pc' = "open_secret"
  /\ i' = 1
  /\ token' = <<>>
  /\ client' = {}
  /\ resp' = NoResp
  /\ stdout' = <<>>
  /\ exc' = ""
  /\ UNCHANGED <<env_vars, samples, trace>>

Next ==
  \/ OpenSecret
  \/ Login
  \/ GetRoot
  \/ SaveRoot
  \/ GetWorkspaces
  \/ SaveWorkspaces
  \/ LoopGet
  \/ LoopSave
  \/ RangeGet
  \/ Rerun

Spec == Init /\ [][Next]_vars

(***************************************************************************)
(* Vocabulary of the properties                                            *)
(***************************************************************************)
\* the nine persisted probes and the byte-range probe, in the documented
\* order: root, workspaces, sessions, kernels, contents, terminals,
\* kernelspecs, status, me, byte range
DocumentedProbes ==
  <<"http://localhost:8888//api/",
    "http://localhost:8888//lab/api/workspaces",
    "http://localhost:8888//api/sessions",
    "http://localhost:8888//api/kernels",
    "http://localhost:8888//api/contents",
    "http://localhost:8888//api/terminals",
    "http://localhost:8888//api/kernelspecs",
    "http://localhost:8888//api/status",
    "http://localhost:8888//api/me">>
DocumentedOrder == DocumentedProbes \o <<"http://localhost:8888//files/hello.txt">>
Persisted == {DocumentedProbes[k] : k \in 1..Len(DocumentedProbes)}

\* the events of the current run, in order
ThisRun == SelectSeq(trace, LAMBDA e : e.run = run)
EventsOf(kind, url) ==
  SelectSeq(ThisRun, LAMBDA e : e.ev = kind /\ e.req.url = url)
Requested(url) == Len(EventsOf("get", url))
Printed(url) == Len(EventsOf("print", url))
Written(url) == Len(EventsOf("write", url))
\* the probe whose response try_save is about to process
Saving(url) ==
  /\ pc \in {"save_root", "save_workspaces", "loop_save"}
  /\ ThisRun # <<>>
  /\ ThisRun[Len(ThisRun)].req.url = url
\* the response to the probe arrived in this run and try_save has run on it
Processed(url) ==
  /\ \E k \in 1..Len(ThisRun) :
       ThisRun[k].ev = "get" /\ ThisRun[k].req.url = url /\ ThisRun[k].out = <<"response">>
  /\ ~Saving(url)
\* the file of the probe, found through the write events or the documented name
PathsWritten == {ThisRun[k].out[1] : k \in {j \in 1..Len(ThisRun) : ThisRun[j].ev = "write"}}
PathWrittenFor(url) == EventsOf("write", url)[1].out[1]

Parses(body) == resp_json(body).ok
Success2xx(status) == status \in 200..299
OSErrors == {"FileNotFoundError", "PermissionError"}
\* try_save raised on the response to url
SaveRaised(url) ==
  /\ pc = "crashed"
  /\ exc \in OSErrors
  /\ ThisRun # <<>>
  /\ ThisRun[Len(ThisRun)].ev = "get"
  /\ ThisRun[Len(ThisRun)].req.url = url

\* the file of the probe holds the document the server returned for it
HoldsDocument(url) ==
  /\ Written(url) = 1
  /\ PathWrittenFor(url) \in DOMAIN samples
  /\ Parses(samples[PathWrittenFor(url)])
  /\ resp_json(samples[PathWrittenFor(url)]).val = resp_json(server[url].body).val

\* the parts of the environment a property does not speak about are nominal
ServerUp == \A u \in Routes : server[u].kind = "http"
CredentialOk == secret_file.state = "ok"
DirectoryOk == samples_dir = "ok"

(***************************************************************************)
(* C1  Failure isolation                                                   *)
(***************************************************************************)
\* the outcomes C1 speaks about: 200 with JSON, 200 without, a status that
\* is no success; the credential, the directory and the transport are nominal
C1_InScope ==
  /\ CredentialOk /\ DirectoryOk /\ ServerUp
  /\ \A u \in Persisted :
       server[u].status_code = 200 \/ ~Success2xx(server[u].status_code)
Fails(u) == ~(server[u].status_code = 200 /\ Parses(server[u].body))
\* a file no probe of this run wrote is as the run found it
Untouched(path) ==
  /\ (path \in DOMAIN samples) = (path \in DOMAIN prev_samples)
  /\ path \in DOMAIN samples => samples[path] = prev_samples[path]

\* C1: whatever outcomes the nine persisted probes have, the run ends
\* normally with each of the nine requested once; a failing probe has
\* printed exactly one line (the status line or the decode-error line) and
\* written no file, a succeeding one has printed nothing and its own file
\* holds its document; the files of the failing probes are untouched.
C1_FailureIsolation ==
  (Ended /\ C1_InScope) =>
    /\ pc = "done"
    /\ \A u \in Persisted :
         /\ Requested(u) = 1
         /\ IF Fails(u)
            THEN /\ Printed(u) = 1
                 /\ EventsOf("print", u)[1].out[1] =
                      (IF server[u].status_code = 200 THEN "JSON decode error: "
                       ELSE "Error: ")
                 /\ Written(u) = 0
            ELSE Printed(u) = 0 /\ HoldsDocument(u)
    /\ Len(stdout) = Cardinality({u \in Persisted : Fails(u)})
    /\ Cardinality(PathsWritten) = Cardinality({u \in Persisted : ~Fails(u)})
    /\ \A path \in (DOMAIN samples \cup DOMAIN prev_samples) \ PathsWritten :
         Untouched(path)

\* a finished run in which one probe failed and the others were saved
C1_Witness ==
  /\ pc = "done" /\ C1_InScope
  /\ \E u \in Persisted : Fails(u) /\ Printed(u) = 1
  /\ \E u \in Persisted : ~Fails(u) /\ HoldsDocument(u)

(***************************************************************************)
(* C2  One file per route when every route answers 200 with JSON           *)
(***************************************************************************)
C2_InScope ==
  /\ CredentialOk /\ DirectoryOk /\ ServerUp
  /\ \A u \in Persisted : server[u].status_code = 200 /\ Parses(server[u].body)

\* C2: when every route answers 200 with JSON, the run ends normally with
\* nothing printed, nine writes to nine distinct files which are all the
\* files of samples/, and each file holds the document of its own route.
C2_OneFilePerRoute ==
  (Ended /\ C2_InScope) =>
    /\ pc = "done"
    /\ stdout = <<>>
    /\ \A u \in Persisted : HoldsDocument(u)
    /\ Cardinality(PathsWritten) = Len(DocumentedProbes)
    /\ Len(SelectSeq(ThisRun, LAMBDA e : e.ev = "write")) = Len(DocumentedProbes)
    /\ DOMAIN samples = PathsWritten

C2_Witness ==
  /\ pc = "done" /\ C2_InScope
  /\ Cardinality(DOMAIN samples) = Len(DocumentedProbes)
  /\ samples # StaleFiles

(***************************************************************************)
(* C3  Which statuses count as success                                     *)
(***************************************************************************)
StatusLines(u) ==
  Len(SelectSeq(EventsOf("print", u), LAMBDA e : e.out[1] = "Error: "))

\* C3 as claimed: a processed probe is unsuccessful (status line, no file)
\* exactly when its status is outside 2xx; every 2xx response with a JSON
\* body is written to the file of the probe.
C3_Original ==
  \A u \in Persisted :
    (Processed(u) /\ DirectoryOk) =>
      /\ ~Success2xx(server[u].status_code) <=> (StatusLines(u) = 1 /\ Written(u) = 0)
      /\ (Success2xx(server[u].status_code) /\ Parses(server[u].body)) =>
           (HoldsDocument(u) /\ StatusLines(u) = 0)

\* C3 amended: a processed probe is unsuccessful (status line, no file)
\* exactly when its status is not 200, other 2xx statuses included; a 200
\* response with a JSON body prints no line and, unless opening the file
\* raised, its document is in the file of the probe.
C3_Only200 ==
  \A u \in Persisted :
    Processed(u) =>
      /\ server[u].status_code # 200 <=> (StatusLines(u) = 1 /\ Written(u) = 0)
      /\ server[u].status_code # 200 => Printed(u) = 1
      /\ (server[u].status_code = 200 /\ Parses(server[u].body)) =>
           /\ Printed(u) = 0
           /\ SaveRaised(u) \/ HoldsDocument(u)

\* a 2xx response other than 200, with a JSON body, was processed
C3_Witness ==
  \E u \in Persisted :
    /\ Processed(u)
    /\ Success2xx(server[u].status_code) /\ server[u].status_code # 200
    /\ Parses(server[u].body)
    /\ StatusLines(u) = 1 /\ Written(u) = 0

(***************************************************************************)
(* C4  Which requests carry the token                                      *)
(***************************************************************************)
AccessToken == strip(secret_file.text)
HasToken(q) ==
  \/ \E k \in 1..Len(q.params) : q.params[k] = <<"token", AccessToken>>
  \/ \E k \in 1..Len(q.headers) : q.headers[k][1] = "Authorization"
GetEvents == {k \in 1..Len(trace) : trace[k].ev = "get"}

\* C4 as claimed: every request carries the token, as the query parameter
\* token or as a header.
C4_Original == \A k \in GetEvents : HasToken(trace[k].req)

\* C4 amended: the first request of the session and the byte-range request
\* carry the trimmed content of .secret as the query parameter token; the
\* nine persisted probes carry no query parameter and no header, and go
\* through the session with the cookies the first response set.
C4_TokenOnLoginAndRange ==
  \A k \in GetEvents :
    LET q == trace[k].req IN
    IF q.url \in {"http://localhost:8888/", "http://localhost:8888//files/hello.txt"}
    THEN q.params = << <<"token", AccessToken>> >>
    ELSE /\ q.url \in Persisted
         /\ q.params = <<>>
         /\ q.headers = <<>>
         /\ q.via = "session"
         /\ q.cookies = server["http://localhost:8888/"].cookies

\* the whole sequence was requested, the token file ending in a newline
C4_Witness ==
  /\ pc = "done"
  /\ secret_file.text # AccessToken
  /\ \A u \in Persisted : Requested(u) = 1

(***************************************************************************)
(* C5  No exception leaves try_save                                        *)
(***************************************************************************)
\* C5: try_save returns normally whatever the response and whatever the
\* state of samples/: no run ends with an exception raised by try_save.
C5_NoEscape == \A u \in Persisted : ~SaveRaised(u)

(***************************************************************************)
(* C6  A missing credential aborts before any probe                        *)
(***************************************************************************)
\* C6: when .secret is absent or unreadable the run ends with the error of
\* open() at its first statement: no request is issued and no file of
\* samples/ changes.
C6_MissingCredentialAborts ==
  ~CredentialOk =>
    /\ pc \in {"open_secret", "crashed"}
    /\ pc = "crashed" => exc \in OSErrors
    /\ trace = <<>>
    /\ samples = prev_samples

C6_Witness == ~CredentialOk /\ pc = "crashed" /\ run = 1

(***************************************************************************)
(* C7  Idempotence of the run                                              *)
(***************************************************************************)
\* C7: when a run that follows another run against the same environment
\* has ended, samples/ is, file for file and character for character, as
\* the run before left it.
C7_Idempotent == (Ended /\ run >= 2) => samples = prev_samples

\* the second run has ended after rewriting files
C7_Witness == pc = "done" /\ run = 2 /\ PathsWritten # {}

(***************************************************************************)
(* C8  Sequential order, one request per route                             *)
(***************************************************************************)
IsPrefix(a, b) == Len(a) <= Len(b) /\ \A k \in 1..Len(a) : a[k] = b[k]
ProbeGets ==
  SelectSeq(ThisRun, LAMBDA e : e.ev = "get" /\ e.req.url # "http://localhost:8888/")
GetUrls == [k \in 1..Len(ProbeGets) |-> ProbeGets[k].req.url]
\* the nearest request before the k-th event of the trace
LastGetBefore(k) ==
  CHOOSE g \in 1..k : trace[g].ev = "get" /\ \A h \in (g + 1)..k : trace[h].ev # "get"

\* C8: the requests of a run after the first one are a prefix of the
\* documented order (so no route is requested twice), the whole of it when
\* the run ends normally; what try_save processes is the response to the
\* latest request, and each write or print belongs to the latest request.
C8_Sequential ==
  /\ IsPrefix(GetUrls, DocumentedOrder)
  /\ pc = "done" => GetUrls = DocumentedOrder
  /\ \A u \in Persisted : Saving(u) =>
       /\ resp = server[u]
       /\ Printed(u) = 0 /\ Written(u) = 0
  /\ \A k \in 1..Len(trace) :
       trace[k].ev \in {"write", "print"} =>
         /\ \E g \in 1..k : trace[g].ev = "get"
         /\ trace[LastGetBefore(k)].req.url = trace[k].req.url
         /\ trace[LastGetBefore(k)].run = trace[k].run

C8_Witness == pc = "done" /\ run = 1 /\ Len(ThisRun) > Len(DocumentedOrder)

(***************************************************************************)
(* C9  A transport failure ends the run                                    *)
(***************************************************************************)
NoResponseStep ==
  /\ Len(trace') = Len(trace) + 1
  /\ trace'[Len(trace')].out = <<"ConnectionError">>

\* C9: the step in which a request gets no response ends the run with
\* ConnectionError and changes no file; a run that has ended issues no
\* request and changes no file.
C9_TransportFatal ==
  [][/\ NoResponseStep =>
          (pc' = "crashed" /\ exc' = "ConnectionError" /\ samples' = samples)
     /\ pc = "crashed" => (trace' = trace /\ samples' = samples)]_vars

\* a probe got no response after earlier probes had written their files
C9_Witness ==
  /\ pc = "crashed" /\ exc = "ConnectionError"
  /\ PathsWritten # {}
  /\ ThisRun[Len(ThisRun)].req.url \in Persisted

(***************************************************************************)
(* C10  A failing probe does not touch its file                            *)
(***************************************************************************)
\* C10: a try_save on a response that is not 200, or is 200 with a body
\* that is no JSON, leaves every file of samples/ as it is.
C10_FailingProbeKeepsFile ==
  [][(/\ pc \in {"save_root", "save_workspaces", "loop_save"}
      /\ resp.status_code # 200 \/ ~Parses(resp.body))
       => samples' = samples]_vars

\* after the run the file of a failed probe is the stale one of an earlier
\* run, beside files this run wrote
C10_Witness ==
  /\ pc = "done"
  /\ \E u \in Persisted :
       /\ Printed(u) = 1 /\ Written(u) = 0
       /\ \E path \in DOMAIN samples \ PathsWritten : samples[path] = StaleText
  /\ PathsWritten # {}

====
